---- MODULE Spec2Model ----
(***************************************************************************)
(* Model of LeadService (src/lead_service.py): the validators              *)
(* is_valid_email / is_valid_phone / determine_region and the              *)
(* orchestration routine process_lead with its three collaborators         *)
(* (lead_repo, sales_agent_repo, notification_service).                    *)
(*                                                                         *)
(* Python values:                                                          *)
(*   None            -> None                                               *)
(*   a str           -> Str(s); s is a sequence of one-character strings   *)
(*                      where the code inspects the characters (email,     *)
(*                      phone, location) and a TLA+ string where it only   *)
(*                      stores or concatenates it (name, region, messages) *)
(*   a dict          -> a function from its keys                           *)
(* A collaborator call either returns or raises; an exception raised by a  *)
(* collaborator is not caught by process_lead and ends the invocation.     *)
(***************************************************************************)
EXTENDS Integers, Sequences, FiniteSets, TLC

VARIABLES
    lead_data,    \* the dict passed to process_lead, mutated in place
    submitted,    \* history: lead_data as it was when process_lead was entered
    pc,           \* position of the invocation inside process_lead
    lead,         \* local `lead` (result of find_by_email_or_phone)
    sales_agent,  \* local `sales_agent`
    new_lead,     \* local `new_lead`
    calls,        \* collaborator calls made, in order, with their arguments
    result,       \* value returned by process_lead (None until it returns)
    exc,          \* exception that left process_lead (None if none)
    phone_arg,    \* argument of a direct call of is_valid_phone
    phone_ret     \* its return value (None before the call)

vars == <<lead_data, submitted, pc, lead, sales_agent, new_lead, calls, result,
          exc, phone_arg, phone_ret>>

---------------------------------------------------------------------------
(* Bounds of the model *)

\* longest run of decimal digits in a generated phone string
MaxRun == 17
\* longest run of line feeds appended to a generated phone string
MaxTail == 2

---------------------------------------------------------------------------
(* Python values *)

None == [none |-> TRUE]
Str(s) == [str |-> s]

\* bool(v) for None and for strings whose characters are modelled
Truthy(v) == v # None /\ Len(v.str) > 0

\* dict.get(key): the value, or None when the key is absent
Get(d, k) == IF k \in DOMAIN d THEN d[k] ELSE None

\* d[k] = v
Put(d, k, v) == [x \in (DOMAIN d) \cup {k} |-> IF x = k THEN v ELSE d[x]]

NL == "\n"
Digits == {"0", "1", "2", "3", "4", "5", "6", "7", "8", "9"}

---------------------------------------------------------------------------
(* Regular expressions, as re.match evaluates them (no flags) *)

\* `$` at position q (the next character to read is s[q]): the end of the
\* string, or just before a line feed that is the last character
AtDollar(s, q) == q = Len(s) + 1 \/ (q = Len(s) /\ s[q] = NL)

\* quantifier bounds of [0-9]{7,15}
MinDigits == 7
MaxDigits == 15

\* re.match(r'^\+?[0-9]{7,15}$', s) is not None
MatchPhone(s) ==
    \E p \in {1} \cup (IF Len(s) >= 1 /\ s[1] = "+" THEN {2} ELSE {}) :
      \E k \in MinDigits..MaxDigits :
        /\ p + k - 1 <= Len(s)
        /\ \A i \in p..(p + k - 1) : s[i] \in Digits
        /\ AtDollar(s, p + k)

\* re.match(r'^[^@]+@[^@]+\.[^@]+$', s) is not None
\* a: index of the '@', d: index of the '\.', e: first index after the match
MatchEmail(s) ==
    \E a \in 2..Len(s) : \E d \in (a + 2)..Len(s) : \E e \in (d + 2)..(Len(s) + 1) :
        /\ s[a] = "@"
        /\ s[d] = "."
        /\ \A i \in 1..(e - 1) : i # a => s[i] # "@"
        /\ AtDollar(s, e)

is_valid_email(email) == IF ~Truthy(email) THEN FALSE ELSE MatchEmail(email.str)

is_valid_phone(phone) == IF ~Truthy(phone) THEN FALSE ELSE MatchPhone(phone.str)

determine_region(location) == Str("default-region")

---------------------------------------------------------------------------
(* Inputs *)

DigitSeq == <<"1", "2", "3", "4", "5", "6", "7", "8", "9", "0">>
DigitRun(n) == [i \in 1..n |-> DigitSeq[((i - 1) % 10) + 1]]
NLRun(n) == [i \in 1..n |-> NL]

PhonePrefixes == {<<>>, <<"+">>, <<"+", "+">>, <<"a">>, <<" ">>}
PhoneTails == {NLRun(k) : k \in 0..MaxTail} \cup {<<"a">>, <<" ">>, <<NL, "a">>, <<"+">>}

\* arguments of the direct calls of is_valid_phone
PhoneArgs ==
    {None}
    \cup {Str(p \o DigitRun(n) \o t) : p \in PhonePrefixes, n \in 0..MaxRun, t \in PhoneTails}
    \cup {Str(DigitRun(4) \o <<"-">> \o DigitRun(4)), Str(<<"a", "b", "c">> \o DigitRun(7))}

\* values of lead_data.get('email') / .get('phone') / .get('location') on entry;
\* None stands for a submission without the key
Emails ==
    {None, Str(<<>>),
     Str(<<"t", "@", "e", ".", "c">>),
     Str(<<"t", "@", "e", ".", "c", ".", "o">>),
     Str(<<"i", "n", "v", "a", "l", "i", "d">>),
     Str(<<"t", "@", ".", "c">>),
     Str(<<"t", "@", "e", "@", "e", ".", "c">>)}
Phones ==
    {None, Str(<<>>),
     Str(DigitRun(3)),
     Str(DigitRun(MinDigits)),
     Str(<<"+">> \o DigitRun(10)),
     Str(DigitRun(MaxDigits + 1)),
     Str(DigitRun(8) \o <<NL>>),
     Str(<<"a", "b", "c">> \o DigitRun(7))}
Locations == {None, Str(<<>>), Str(<<"U", "S">>)}
\* a submission may already carry the extra fields
Regions == {None, Str("eu-west")}
\* (an agent id is an integer: the empty set stands for no assigned_agent key)
AssignedAgents == {{}, {9}}

Entry(k, v) == IF v = None THEN <<>> ELSE (k :> v)

Submission(e, p, l, r, a) ==
    ("name" :> Str("John")) @@ Entry("email", e) @@ Entry("phone", p)
        @@ Entry("location", l) @@ Entry("region", r)
        @@ (IF a = {} THEN <<>> ELSE ("assigned_agent" :> CHOOSE x \in a : TRUE))

\* what the collaborators can return
StoredLeads == {[id |-> 1, name |-> "John"], [id |-> 5, name |-> "Johnny"]}
Agents == {[id |-> 1, name |-> "Agent1"], [id |-> 2, name |-> "Agent2"]}
CreatedLeads == {[id |-> 2, name |-> "John"], [id |-> 3, name |-> "J. Doe"]}

---------------------------------------------------------------------------
(* process_lead *)

ValidationException(messages) == [type |-> "ValidationException", messages |-> messages]
\* any exception a collaborator raises
CollaboratorError == [type |-> "CollaboratorError"]

\* ValidationError with the format check joined by `and`: one well-formed
\* contact is enough
ValidationError_either(d) ==
    IF ~Truthy(Get(d, "email")) /\ ~Truthy(Get(d, "phone"))
    THEN [error |-> "Lead must have email or phone number"]
    ELSE IF ~is_valid_email(Get(d, "email")) /\ ~is_valid_phone(Get(d, "phone"))
    THEN [error |-> "Invalid email or phone format"]
    ELSE None

\* ValidationError without the format check
ValidationError_presence_only(d) ==
    IF ~Truthy(Get(d, "email")) /\ ~Truthy(Get(d, "phone"))
    THEN [error |-> "Lead must have email or phone number"]
    ELSE None

\* lines 17-21: the messages of the ValidationException raised, or None
ValidationError(d) ==
    IF ~Truthy(Get(d, "email")) /\ ~Truthy(Get(d, "phone"))
    THEN [error |-> "Lead must have email or phone number"]
    ELSE IF ~is_valid_email(Get(d, "email")) \/ ~is_valid_phone(Get(d, "phone"))
    THEN [error |-> "Invalid email or phone format"]
    ELSE None

\* Regionalized without the test of the location
Regionalized_always(d) == Put(d, "region", determine_region(Get(d, "location")))

\* lines 32-33
Regionalized(d) ==
    IF Truthy(Get(d, "location"))
    THEN Put(d, "region", determine_region(d["location"]))
    ELSE d

\* line 44
WithAgent(d, agent) == Put(d, "assigned_agent", agent.id)

\* arguments of the collaborator calls
FindArgs(d) == <<"find_by_email_or_phone", Get(d, "email"), Get(d, "phone")>>
AgentArgs == <<"get_best_available_agent">>
\* UpdateArgs with the region computed for the payload
UpdateArgs_regionalized(l, d) == <<"update", l.id, Regionalized(d)>>
UpdateArgs(l, d) == <<"update", l.id, d>>
QueueArgs(d) == <<"save_to_waiting_queue", d>>
CreateArgs(d) == <<"create", d>>
SendArgs(agent, nl) == <<"send", agent.id, "New lead assigned: " \o nl.name>>
\* LogArgs with the two identifiers in the wrong order
LogArgs_swapped(agent, nl) ==
    <<"log_lead_process", agent.id, nl.id, "Lead assigned successfully">>
LogArgs(agent, nl) ==
    <<"log_lead_process", nl.id, agent.id, "Lead assigned successfully">>

UpdatedResult == [message |-> "Lead updated"]
QueuedResult == [message |-> "No available sales agents. Lead added to waiting queue."]
AssignedResult(agent) ==
    [message |-> "New lead created and assigned", assigned_to |-> agent.name]

Init ==
    /\ \E e \in Emails, p \in Phones, l \in Locations, r \in Regions, a \in AssignedAgents :
         lead_data = Submission(e, p, l, r, a)
    /\ submitted = lead_data
    /\ pc = "validate"
    /\ lead = None
    /\ sales_agent = None
    /\ new_lead = None
    /\ calls = <<>>
    /\ result = None
    /\ exc = None
    /\ phone_arg = None
    /\ phone_ret = None

\* an exception leaves process_lead: nothing else changes
Raise(e) ==
    /\ pc' = "raised"
    /\ exc' = e
    /\ UNCHANGED <<lead_data, submitted, lead, sales_agent, new_lead, calls, result,
                   phone_arg, phone_ret>>

\* the collaborator call c raises: the exception leaves process_lead
CallRaises(c) ==
    /\ calls' = Append(calls, c)
    /\ pc' = "raised"
    /\ exc' = CollaboratorError
    /\ UNCHANGED <<lead_data, submitted, lead, sales_agent, new_lead, result,
                   phone_arg, phone_ret>>

\* return v, after the collaborator call c completed
CallAndReturn(c, v) ==
    /\ calls' = Append(calls, c)
    /\ result' = v
    /\ pc' = "returned"
    /\ UNCHANGED <<lead_data, submitted, lead, sales_agent, new_lead, exc,
                   phone_arg, phone_ret>>

\* Validate with the duplicate lookup made before the checks
Validate_after_lookup ==
    /\ pc = "validate"
    /\ calls' = Append(calls, FindArgs(lead_data))
    /\ IF ValidationError(lead_data) # None
       THEN /\ pc' = "raised"
            /\ exc' = ValidationException(ValidationError(lead_data))
       ELSE /\ pc' = "find"
            /\ UNCHANGED exc
    /\ UNCHANGED <<lead_data, submitted, lead, sales_agent, new_lead, result,
                   phone_arg, phone_ret>>

\* lines 17-21
Validate ==
    /\ pc = "validate"
    /\ IF ValidationError(lead_data) # None
       THEN Raise(ValidationException(ValidationError(lead_data)))
       ELSE /\ pc' = "find"
            /\ UNCHANGED <<lead_data, submitted, lead, sales_agent, new_lead, calls,
                           result, exc, phone_arg, phone_ret>>

\* lines 24-26
FindExisting ==
    /\ pc = "find"
    /\ \/ \E l \in StoredLeads \cup {None} :
            /\ lead' = l
            /\ calls' = Append(calls, FindArgs(lead_data))
            /\ pc' = IF l # None THEN "update" ELSE "region"
            /\ UNCHANGED <<lead_data, submitted, sales_agent, new_lead, result, exc,
                           phone_arg, phone_ret>>
       \/ CallRaises(FindArgs(lead_data))

\* lines 28-29
UpdateExisting ==
    /\ pc = "update"
    /\ \/ CallAndReturn(UpdateArgs(lead, lead_data), UpdatedResult)
       \/ CallRaises(UpdateArgs(lead, lead_data))

\* lines 32-33
Regionalize ==
    /\ pc = "region"
    /\ lead_data' = Regionalized(lead_data)
    /\ pc' = "agent"
    /\ UNCHANGED <<submitted, lead, sales_agent, new_lead, calls, result, exc,
                   phone_arg, phone_ret>>

\* lines 36-38
GetAgent ==
    /\ pc = "agent"
    /\ \/ \E a \in Agents \cup {None} :
            /\ sales_agent' = a
            /\ calls' = Append(calls, AgentArgs)
            /\ pc' = IF a = None THEN "queue" ELSE "create"
            /\ UNCHANGED <<lead_data, submitted, lead, new_lead, result, exc,
                           phone_arg, phone_ret>>
       \/ CallRaises(AgentArgs)

\* lines 40-41
SaveToWaitingQueue ==
    /\ pc = "queue"
    /\ \/ CallAndReturn(QueueArgs(lead_data), QueuedResult)
       \/ CallRaises(QueueArgs(lead_data))

\* lines 44-45: the assignment to lead_data happens before create is called,
\* so it stays when create raises
CreateLead ==
    /\ pc = "create"
    /\ lead_data' = WithAgent(lead_data, sales_agent)
    /\ calls' = Append(calls, CreateArgs(lead_data'))
    /\ \/ \E nl \in CreatedLeads :
            /\ new_lead' = nl
            /\ pc' = "notify"
            /\ UNCHANGED exc
       \/ /\ pc' = "raised"
          /\ exc' = CollaboratorError
          /\ UNCHANGED new_lead
    /\ UNCHANGED <<submitted, lead, sales_agent, result, phone_arg, phone_ret>>

\* Notify without the call
Notify_skipped ==
    /\ pc = "notify"
    /\ pc' = "log"
    /\ UNCHANGED <<lead_data, submitted, lead, sales_agent, new_lead, calls, result,
                   exc, phone_arg, phone_ret>>

\* line 48
Notify ==
    /\ pc = "notify"
    /\ \/ /\ calls' = Append(calls, SendArgs(sales_agent, new_lead))
          /\ pc' = "log"
          /\ UNCHANGED <<lead_data, submitted, lead, sales_agent, new_lead, result,
                         exc, phone_arg, phone_ret>>
       \/ CallRaises(SendArgs(sales_agent, new_lead))

\* lines 51-53
LogAndReturn ==
    /\ pc = "log"
    /\ \/ CallAndReturn(LogArgs(sales_agent, new_lead), AssignedResult(sales_agent))
       \/ CallRaises(LogArgs(sales_agent, new_lead))

Next ==
    \/ Validate
    \/ FindExisting
    \/ UpdateExisting
    \/ Regionalize
    \/ GetAgent
    \/ SaveToWaitingQueue
    \/ CreateLead
    \/ Notify
    \/ LogAndReturn

Spec == Init /\ [][Next]_vars

---------------------------------------------------------------------------
(* Direct calls of the validators *)

InitPhone ==
    /\ phone_arg \in PhoneArgs
    /\ phone_ret = None
    /\ pc = "is_valid_phone"
    /\ lead_data = <<>>
    /\ submitted = <<>>
    /\ lead = None
    /\ sales_agent = None
    /\ new_lead = None
    /\ calls = <<>>
    /\ result = None
    /\ exc = None

CallIsValidPhone ==
    /\ pc = "is_valid_phone"
    /\ phone_ret' = is_valid_phone(phone_arg)
    /\ pc' = "returned"
    /\ UNCHANGED <<lead_data, submitted, lead, sales_agent, new_lead, calls, result,
                   exc, phone_arg>>

NextPhone == CallIsValidPhone

SpecPhone == InitPhone /\ [][NextPhone]_vars

---------------------------------------------------------------------------
(* Vocabulary of the properties *)

\* the invocation of process_lead is over
Ended == pc \in {"returned", "raised"}

\* a ValidationException left process_lead
ValidationFailed == pc = "raised" /\ exc # None /\ exc.type = "ValidationException"

\* the calls that returned: all of them, but the last one when it raised
Completed ==
    IF exc = CollaboratorError THEN SubSeq(calls, 1, Len(calls) - 1) ELSE calls

Ops(cs) == [i \in 1..Len(cs) |-> cs[i][1]]

\* the operations that change something outside process_lead
SideEffectOps == {"update", "save_to_waiting_queue", "create", "send", "log_lead_process"}
StoreWriteOps == {"update", "save_to_waiting_queue", "create"}

IsSideEffect(c) == c[1] \in SideEffectOps
Effects == SelectSeq(Completed, IsSideEffect)

\* the submission handed to a store write
Payload(c) == IF c[1] = "update" THEN c[3] ELSE c[2]

\* empty or absent
Empty(v) == v = None \/ Len(v.str) = 0

PresenceMessage == [error |-> "Lead must have email or phone number"]
FormatMessage == [error |-> "Invalid email or phone format"]

---------------------------------------------------------------------------
(* Properties of process_lead, checked under Spec *)

\* C1: once the validation step has run, the invocation has failed with the
\* contact-presence message when email and phone were both empty or absent,
\* with the format message when one of them was non-empty but not both were
\* valid, and with no ValidationException when both were valid.
C1_ValidationOutcome ==
    pc # "validate" =>
        LET e == Get(submitted, "email")
            p == Get(submitted, "phone")
        IN  /\ (Empty(e) /\ Empty(p)) =>
                 pc = "raised" /\ exc = ValidationException(PresenceMessage)
            /\ (~(Empty(e) /\ Empty(p)) /\ ~(is_valid_email(e) /\ is_valid_phone(p))) =>
                 pc = "raised" /\ exc = ValidationException(FormatMessage)
            /\ (is_valid_email(e) /\ is_valid_phone(p)) => ~ValidationFailed

\* a submission with a well-formed email and no phone fails with the format message
C1_Witness ==
    /\ pc = "raised"
    /\ exc = ValidationException(FormatMessage)
    /\ "phone" \notin DOMAIN submitted
    /\ is_valid_email(Get(submitted, "email"))

\* C2: when a ValidationException leaves process_lead, no collaborator has
\* been called and the submission is as it was passed in.
C2_ValidationBeforeSideEffects ==
    ValidationFailed => calls = <<>> /\ lead_data = submitted

\* a submission with a location and a malformed phone failed validation
C2_Witness ==
    /\ ValidationFailed
    /\ Truthy(Get(submitted, "location"))
    /\ is_valid_email(Get(submitted, "email"))
    /\ ~Empty(Get(submitted, "phone"))

\* C3: an invocation that has ended with at least one side effect performed
\* has performed all the side effects of its path: the update alone, the
\* enqueue alone, or create, notify and audit log. (An end with no side
\* effect at all is granted to the claim.)
C3_NoPartialFailure ==
    (Ended /\ Effects # <<>>) =>
        Ops(Effects) \in {<<"update">>, <<"save_to_waiting_queue">>,
                          <<"create", "send", "log_lead_process">>}

\* `region` was computed from a non-empty location
LocationSupplied == Truthy(Get(submitted, "location"))

\* the store writes that completed
StoreWrites == SelectSeq(Completed, LAMBDA c : c[1] \in StoreWriteOps)

\* C4 as stated: for a submission that came without region, when process_lead
\* has returned (on any path) the submission, and every submission persisted
\* to the store, holds region exactly when a location was supplied.
C4_RegionIffLocation ==
    (pc = "returned" /\ "region" \notin DOMAIN submitted) =>
        /\ ("region" \in DOMAIN lead_data) <=> LocationSupplied
        /\ \A i \in 1..Len(StoreWrites) :
             ("region" \in DOMAIN Payload(StoreWrites[i])) <=> LocationSupplied

\* C4 as amended: for a submission that came without region,
\*  - without a non-empty location, region is never added, in any state;
\*  - when the invocation returns Updated, region is not added even with a
\*    location, in the submission and in the payload of update;
\*  - when it returns Queued or Assigned, the submission and the persisted
\*    payload hold region, equal to "default-region", exactly when the
\*    location is non-empty.
C4_RegionAmended ==
    "region" \notin DOMAIN submitted =>
        /\ ~LocationSupplied => "region" \notin DOMAIN lead_data
        /\ \A i \in 1..Len(calls) :
             calls[i][1] = "update" =>
                 "region" \notin DOMAIN calls[i][3] /\ "region" \notin DOMAIN lead_data
        /\ (pc = "returned" /\ result # UpdatedResult) =>
             /\ ("region" \in DOMAIN lead_data) <=> LocationSupplied
             /\ LocationSupplied => lead_data["region"] = Str("default-region")
             /\ \A i \in 1..Len(StoreWrites) :
                  /\ ("region" \in DOMAIN Payload(StoreWrites[i])) <=> LocationSupplied
                  /\ LocationSupplied =>
                       Payload(StoreWrites[i])["region"] = Str("default-region")

\* an update of an existing lead whose submission has a location and no region
C4_Witness ==
    /\ pc = "returned"
    /\ result = UpdatedResult
    /\ LocationSupplied
    /\ "region" \notin DOMAIN submitted
    /\ "region" \notin DOMAIN lead_data

\* a lead was created and assigned: create returned
Created == \E i \in 1..Len(Completed) : Completed[i][1] = "create"

\* C5: for a submission that came without assigned_agent, when the invocation
\* has ended (by a return or by an exception) the submission holds
\* assigned_agent exactly when the lead was created and assigned, and no
\* payload of update or save_to_waiting_queue holds assigned_agent.
C5_AssignedAgentIffAssigned ==
    (Ended /\ "assigned_agent" \notin DOMAIN submitted) =>
        /\ ("assigned_agent" \in DOMAIN lead_data) <=> Created
        /\ \A i \in 1..Len(calls) :
             calls[i][1] \in {"update", "save_to_waiting_queue"} =>
                 "assigned_agent" \notin DOMAIN Payload(calls[i])

\* C6: when process_lead has returned, the side effects performed are: for
\* Updated one update; for Queued one save_to_waiting_queue; for Assigned one
\* create, one send and one log_lead_process, in that order; nothing else.
C6_SideEffectsPerPath ==
    pc = "returned" =>
        /\ result = UpdatedResult => Ops(Effects) = <<"update">>
        /\ result = QueuedResult => Ops(Effects) = <<"save_to_waiting_queue">>
        /\ result \notin {UpdatedResult, QueuedResult} =>
             /\ result.message = "New lead created and assigned"
             /\ Ops(Effects) = <<"create", "send", "log_lead_process">>

\* an invocation returned Assigned
C6_Witness ==
    /\ pc = "returned"
    /\ result \notin {UpdatedResult, QueuedResult}
    /\ Len(Effects) = 3

\* C7: once find_by_email_or_phone has returned an existing record, the
\* only further call is update, made with that record's id and the
\* submission exactly as it was passed in (no region computed, the location
\* notwithstanding); the agent directory is not queried, and the invocation,
\* when it returns, returns {message: "Lead updated"}.
C7_Deduplication ==
    lead # None =>
        /\ lead_data = submitted
        /\ \A i \in 1..Len(calls) : calls[i][1] # "get_best_available_agent"
        /\ Ended =>
             calls = << <<"find_by_email_or_phone", Get(submitted, "email"),
                          Get(submitted, "phone")>>,
                        <<"update", lead.id, submitted>> >>
        /\ pc = "returned" => result = [message |-> "Lead updated"]
        /\ pc \in {"update", "returned", "raised"}

\* an existing lead was updated from a submission that has a location
C7_Witness ==
    /\ pc = "returned"
    /\ lead # None
    /\ lead.id = 5
    /\ Truthy(Get(submitted, "location"))
    /\ Len(calls) = 2

\* C8: every submission handed to update, save_to_waiting_queue or create
\* has, at the call, an email that is_valid_email accepts or a phone that
\* is_valid_phone accepts.
C8_StorageInvariant ==
    \A i \in 1..Len(calls) :
        calls[i][1] \in StoreWriteOps =>
            \/ is_valid_email(Get(Payload(calls[i]), "email"))
            \/ is_valid_phone(Get(Payload(calls[i]), "phone"))

\* a submission was handed to save_to_waiting_queue
C8_Witness ==
    \E i \in 1..Len(calls) :
        /\ calls[i][1] = "save_to_waiting_queue"
        /\ "email" \in DOMAIN calls[i][2]

\* C9: with an agent A from the directory, create is called with the
\* submission carrying assigned_agent = A.id (and region = "default-region"
\* when the location is non-empty), send with (A.id, "New lead assigned: " +
\* name of the created record), log_lead_process with (id of the created
\* record, A.id, "Lead assigned successfully"), and the invocation, when it
\* returns, returns {message: "New lead created and assigned",
\* assigned_to: A.name}.
C9_AssignedPayloads ==
    sales_agent # None =>
        /\ \A i \in 1..Len(calls) :
             /\ calls[i][1] = "create" =>
                  /\ Get(calls[i][2], "assigned_agent") = sales_agent.id
                  /\ LocationSupplied => Get(calls[i][2], "region") = Str("default-region")
                  /\ \A k \in DOMAIN submitted \ {"region", "assigned_agent"} :
                       Get(calls[i][2], k) = submitted[k]
             /\ calls[i][1] = "send" =>
                  calls[i] = <<"send", sales_agent.id,
                               "New lead assigned: " \o new_lead.name>>
             /\ calls[i][1] = "log_lead_process" =>
                  calls[i] = <<"log_lead_process", new_lead.id, sales_agent.id,
                               "Lead assigned successfully">>
        /\ pc = "returned" =>
             /\ result = [message |-> "New lead created and assigned",
                          assigned_to |-> sales_agent.name]
             /\ Ops(calls) = <<"find_by_email_or_phone", "get_best_available_agent",
                               "create", "send", "log_lead_process">>

\* a lead with a location was assigned to Agent2, and the store named the
\* created record differently from the submission
C9_Witness ==
    /\ pc = "returned"
    /\ sales_agent # None
    /\ sales_agent.id = 2
    /\ new_lead.name = "J. Doe"
    /\ LocationSupplied
    /\ "assigned_agent" \in DOMAIN submitted

---------------------------------------------------------------------------
(* Properties of is_valid_phone, checked under SpecPhone *)

\* an optional leading '+', then 7 to 15 decimal digits, and nothing else
PlusThenDigits(s) ==
    LET body == IF Len(s) >= 1 /\ s[1] = "+" THEN Tail(s) ELSE s
    IN  /\ Len(body) >= 7
        /\ Len(body) <= 15
        /\ \A i \in 1..Len(body) : body[i] \in Digits

\* C10: is_valid_phone returns false for an empty or absent value, and for
\* every other string true exactly when the whole string is an optional '+'
\* followed by 7 to 15 decimal digits.
C10_PhoneShape ==
    pc = "returned" =>
        phone_ret = (~Empty(phone_arg) /\ PlusThenDigits(phone_arg.str))

====
